---------------------------- MODULE Spec2Model ----------------------------
(***************************************************************************)
(* Model of the SNTP unicast client of src/src/ntp.rs.                     *)
(*                                                                         *)
(* Number representation.  TLC integers are 32 bits wide, while the code   *)
(* works on u32/u64 values that reach 2^32 and beyond.  A u32 is therefore *)
(* kept as a pair <<hi, lo>> of 16-bit halves (value hi * 2^16 + lo), and  *)
(* the u64 held by TimeStamp.time as the 8 bytes it occupies in memory,    *)
(* which are also the 8 bytes that go on the wire because the packet is    *)
(* sent and received by reinterpreting the struct as raw bytes.            *)
(*                                                                         *)
(* A Duration / SystemTime since the Unix epoch is [secs, nanos] with      *)
(* 0 <= nanos < 10^9.  Option<T> is <<>> (None) or <<x>> (Some(x)).        *)
(* f64 seconds are modelled exactly (no rounding): a signed quantity is    *)
(* [s, n] meaning s + n / 10^9 seconds with 0 <= n < 10^9.                 *)
(*                                                                         *)
(* The local clock is taken to be at or after the Unix epoch, so the two   *)
(* expect("Failed to get local time") calls do not panic.  SystemTime::now *)
(* in SyncResult::new reads the same instant as t4.                        *)
(***************************************************************************)
EXTENDS Integers, Sequences, FiniteSets

VARIABLES
    clock,        \* SystemTime::now() of the local host, [secs, nanos]
    pc,           \* position of the client: "idle", "recv", "done", "panicked"
    out_packet,   \* the request built by the current sync() call
    reply,        \* the reply buffer of the current sync() call
    socket,       \* datagrams queued on the UDP socket, oldest first
    wire,         \* requests sent to the server and not answered yet
    result,       \* outcome of the last sync() call
    trace,        \* socket operations of the current sync() call, in order
    calls,        \* number of sync() calls started
    history,      \* xmt of the request each sync() call built, oldest first
    received,     \* (size, sender) recv_from returned in this call, and t4
    instant,      \* codec: the local instant TimeStamp::now() reads
    stamp,        \* codec: a TimeStamp
    decoded,      \* codec: the result of TimeStamp::decode on stamp
    codec_pc      \* codec: "raw", "now", "raw_decoded", "now_decoded"

vars == <<clock, pc, out_packet, reply, socket, wire, result, trace, calls,
          history, received, instant, stamp, decoded, codec_pc>>

sync_vars == <<clock, pc, out_packet, reply, socket, wire, result, trace,
               calls, history, received>>

codec_vars == <<instant, stamp, decoded, codec_pc>>

-----------------------------------------------------------------------------
(* Program constants *)

NTP_VERSION == 4

NTP_PACKET_SIZE == 48

\* NTP_TO_UNIX_DURATION = 2208988800 s = NTP_TO_UNIX_HI * 2^16 + NTP_TO_UNIX_LO
NTP_TO_UNIX_HI == 33706

NTP_TO_UNIX_LO == 32384

\* std::time::Duration keeps nanos below NANOS_PER_SEC
NANOS_PER_SEC == 1000000000

W16 == 65536

W8 == 256

-----------------------------------------------------------------------------
(* Option *)

None == <<>>

Some(x) == <<x>>

-----------------------------------------------------------------------------
(* u32 as a pair of 16-bit halves *)

Lt32(a, b) == a[1] < b[1] \/ (a[1] = b[1] /\ a[2] < b[2])

\* k * NANOS_PER_SEC as a u32 pair, for k in 0..4
KNanos(k) ==
    LET lo == k * (NANOS_PER_SEC % W16)
    IN  <<k * (NANOS_PER_SEC \div W16) + lo \div W16, lo % W16>>

\* a - b for u32 pairs with b <= a and a - b < 2^31
Sub32(a, b) == (a[1] - b[1]) * W16 + (a[2] - b[2])

-----------------------------------------------------------------------------
(* TimeStamp *)

U16Bytes(h) == <<h \div W8, h % W8>>

\* u64::to_be(((sec as u64) << 32) | (nano as u64)): the bytes of the result
\* in memory are the big-endian bytes of the value.
ToBe(sec, frac) ==
    U16Bytes(sec[1]) \o U16Bytes(sec[2]) \o U16Bytes(frac[1]) \o U16Bytes(frac[2])

\* u64::from_be, then sec = cpu_repr >> 32 and nano = cpu_repr & 0xffffffff
FromBe(time) ==
    [sec  |-> <<time[1] * W8 + time[2], time[3] * W8 + time[4]>>,
     nano |-> <<time[5] * W8 + time[6], time[7] * W8 + time[8]>>]

\* impl Default for TimeStamp: time = 0
TimeStampDefault == <<0, 0, 0, 0, 0, 0, 0, 0>>

\* TimeStamp::raw() == 0
RawIsZero(time) == time = TimeStampDefault

\* Mutant: the NTP epoch offset is not added.
TimeStampNowNoOffset(now) ==
    ToBe(<<(now.secs \div W16) % W16, now.secs % W16>>,
         <<now.nanos \div W16, now.nanos % W16>>)

\* TimeStamp::now(), given the SystemTime it reads (at or after the epoch).
\* sec is a u64; (sec << 32) keeps its low 32 bits only.
TimeStampNow(now) ==
    LET lo == (now.secs % W16) + NTP_TO_UNIX_LO
        hi == now.secs \div W16 + NTP_TO_UNIX_HI + lo \div W16
    IN  ToBe(<<hi % W16, lo % W16>>,
             <<now.nanos \div W16, now.nanos % W16>>)

\* Mutant: a timestamp before the Unix epoch decodes to the Unix epoch.
TimeStampDecodeClamp(time) ==
    LET r     == FromBe(time)
        carry == Cardinality({k \in 1..4 : ~Lt32(r.nano, KNanos(k))})
    IN  IF Lt32(r.sec, <<NTP_TO_UNIX_HI, NTP_TO_UNIX_LO>>)
        THEN Some([secs |-> 0, nanos |-> 0])
        ELSE Some([secs  |-> Sub32(r.sec, <<NTP_TO_UNIX_HI, NTP_TO_UNIX_LO>>) + carry,
                   nanos |-> Sub32(r.nano, KNanos(carry))])

\* TimeStamp::decode.  Duration::new(sec, nano) carries nano / 10^9 into the
\* seconds and keeps nano % 10^9; NTP_TO_UNIX_DURATION is then subtracted
\* (the subtraction is done first here so that every value fits in 31 bits).
TimeStampDecode(time) ==
    LET r     == FromBe(time)
        carry == Cardinality({k \in 1..4 : ~Lt32(r.nano, KNanos(k))})
    IN  IF Lt32(r.sec, <<NTP_TO_UNIX_HI, NTP_TO_UNIX_LO>>)
        THEN None
        ELSE Some([secs  |-> Sub32(r.sec, <<NTP_TO_UNIX_HI, NTP_TO_UNIX_LO>>) + carry,
                   nanos |-> Sub32(r.nano, KNanos(carry))])

-----------------------------------------------------------------------------
(* Duration and f64 arithmetic (exact) *)

Duration(secs, nanos) == [secs |-> secs, nanos |-> nanos]

\* s + n / 10^9 seconds with n brought into 0 .. 10^9 - 1
Norm(s, n) == [s |-> s + (n \div NANOS_PER_SEC), n |-> n % NANOS_PER_SEC]

\* a.as_secs_f64() - b.as_secs_f64()
FSub(a, b) == Norm(a.secs - b.secs, a.nanos - b.nanos)

FAdd(x, y) == Norm(x.s + y.s, x.n + y.n)

FNeg(x) == Norm(-x.s, -x.n)

\* x / 2.0, in units of half a nanosecond: s + hn / (2 * 10^9) seconds
FHalf(x) == [s |-> x.s \div 2, hn |-> (x.s % 2) * NANOS_PER_SEC + x.n]

-----------------------------------------------------------------------------
(* Mode, Leap and Packet *)

\* tryfrom_enum! Mode: Reserved = 0, Client = 3, Server = 4
ModeTryFrom(value) ==
    CASE value = 0 -> Some("Reserved")
      [] value = 3 -> Some("Client")
      [] value = 4 -> Some("Server")
      [] OTHER     -> None

\* tryfrom_enum! Leap: NoWarning = 0, LastHas61 = 1, LastHas59 = 2, Unknown = 3
LeapTryFrom(value) ==
    CASE value = 0 -> Some("NoWarning")
      [] value = 1 -> Some("LastHas61")
      [] value = 2 -> Some("LastHas59")
      [] value = 3 -> Some("Unknown")
      [] OTHER     -> None

\* Packet::flags: (leap << 6) | (version << 3) | mode, on ordinals
flags(l, version, m) == l * 64 + version * 8 + m

\* Packet::default()
PacketDefault ==
    [flags |-> 0, stratum |-> 0, poll |-> 0, precision |-> 0, rootdelay |-> 0,
     rootdisp |-> 0, refid |-> 0, reftime |-> TimeStampDefault,
     org |-> TimeStampDefault, rec |-> TimeStampDefault,
     xmt |-> TimeStampDefault]

\* Packet::new_client_packet, given the SystemTime that TimeStamp::now() reads
new_client_packet(now) ==
    [PacketDefault EXCEPT !.flags = flags(3, NTP_VERSION, 3),
                          !.xmt = TimeStampNow(now)]

\* Packet::leap
leap(packet) == LeapTryFrom(packet.flags \div 64)

\* Packet::mode
mode(packet) == ModeTryFrom(packet.flags % 8)

\* Packet::duration_since_unix_epoch
duration_since_unix_epoch(t) == TimeStampDecode(t)

\* Mutant: an undecodable timestamp is replaced by the Unix epoch.
timestamps_or_zero(packet) ==
    LET z(t) == IF duration_since_unix_epoch(t) = None
                THEN Duration(0, 0) ELSE duration_since_unix_epoch(t)[1]
    IN  Some(<<z(packet.org), z(packet.rec), z(packet.xmt)>>)

\* Packet::timestamps
timestamps(packet) ==
    LET t1 == duration_since_unix_epoch(packet.org)
        t2 == duration_since_unix_epoch(packet.rec)
        t3 == duration_since_unix_epoch(packet.xmt)
    IN  IF t1 = None \/ t2 = None \/ t3 = None
        THEN None
        ELSE Some(<<t1[1], t2[1], t3[1]>>)

\* Byte offset just past each field of the #[repr(C)] struct Packet
FieldEnd ==
    [flags |-> 1, stratum |-> 2, poll |-> 3, precision |-> 4, rootdelay |-> 8,
     rootdisp |-> 12, refid |-> 16, reftime |-> 24, org |-> 32, rec |-> 40,
     xmt |-> 48]

\* The reply buffer after recv_from copied the first `size` bytes of a
\* datagram over Packet::default() (size on a field boundary).
Filled(packet, size) ==
    [f \in DOMAIN PacketDefault |->
        IF FieldEnd[f] <= size THEN packet[f] ELSE PacketDefault[f]]

-----------------------------------------------------------------------------
(* Result<SyncResult, NtpError>; a panic unwinds out of sync() *)

Ok(v) == [kind |-> "Ok", msg |-> "", value |-> Some(v)]

Err(msg) == [kind |-> "Err", msg |-> msg, value |-> None]

Panic(msg) == [kind |-> "Panic", msg |-> msg, value |-> None]

NoResult == [kind |-> "NoResult", msg |-> "", value |-> None]

UnexpectedReply == "Unexpected reply"

InvalidContent == "Incorrect server reply content, discarded"

DecodeFailed == "Failed to decode timestamps from reply"

LeapFailed == "Failed to decode leap field in the reply"

SendFailed == "send_to: os error"

RecvFailed == "recv_from: os error"

NegativeDuration == "cannot convert float seconds to Duration: value is negative"

-----------------------------------------------------------------------------
(* NtpNet *)

\* NtpNet.server_addr, the first address the server name resolved to
server_addr == [ip |-> "192.0.2.1", port |-> 123]

\* Mutant: the sender's port is not compared.
receive_packet_any_port(datagram) ==
    IF datagram.ip # server_addr.ip \/ datagram.size # NTP_PACKET_SIZE
    THEN Err(UnexpectedReply)
    ELSE Ok(Filled(datagram.packet, datagram.size))

\* NtpNet::receive_packet once recv_from returned (size, sender) and filled
\* the buffer: Ok carries the buffer.
receive_packet(datagram) ==
    IF \/ datagram.ip # server_addr.ip
       \/ datagram.port # server_addr.port
       \/ datagram.size # NTP_PACKET_SIZE
    THEN Err(UnexpectedReply)
    ELSE Ok(Filled(datagram.packet, datagram.size))

-----------------------------------------------------------------------------
(* SyncResult and NtpSync *)

\* SyncResult::new, given the SystemTime::now() it reads.
\* Duration::from_secs_f64 panics on a negative value.
SyncResultNew(offset, delay, lp, now) ==
    IF offset.s < 0
    THEN Panic(NegativeDuration)
    ELSE LET e == Norm(now.secs + offset.s, now.nanos + offset.hn \div 2)
         IN  Ok([estimated_time |-> Duration(e.s, e.n), offset |-> offset,
                 delay |-> delay, leap |-> lp])

\* Mutant: the originate timestamp must echo the request's transmit timestamp.
should_discard_unless_echo(packet) ==
    \/ mode(packet) = None
    \/ packet.stratum = 0
    \/ mode(packet)[1] # "Server"
    \/ RawIsZero(packet.org)
    \/ RawIsZero(packet.rec)
    \/ RawIsZero(packet.xmt)
    \/ packet.org # out_packet.xmt

\* Mutant: stratum is not looked at.
should_discard_any_stratum(packet) ==
    \/ mode(packet) = None
    \/ mode(packet)[1] # "Server"
    \/ RawIsZero(packet.org)
    \/ RawIsZero(packet.rec)
    \/ RawIsZero(packet.xmt)

\* NtpSync::should_discard_received_packet
should_discard_received_packet(packet) ==
    \/ mode(packet) = None
    \/ packet.stratum = 0
    \/ mode(packet)[1] # "Server"
    \/ RawIsZero(packet.org)
    \/ RawIsZero(packet.rec)
    \/ RawIsZero(packet.xmt)

\* NtpSync::compute_time; now is what SystemTime::now() returns in
\* SyncResult::new.
compute_time(packet, t4, now) ==
    LET ts == timestamps(packet)
    IN  IF ts = None THEN Err(DecodeFailed)
        ELSE IF leap(packet) = None THEN Err(LeapFailed)
        ELSE LET t1     == ts[1][1]
                 t2     == ts[1][2]
                 t3     == ts[1][3]
                 offset == FHalf(FAdd(FSub(t2, t1), FSub(t3, t4)))
                 delay  == FAdd(FSub(t4, t1), FNeg(FSub(t3, t2)))
             IN  SyncResultNew(offset, delay, leap(packet)[1], now)

\* NtpSync::sync from the return of recv_from on: the socket operations and
\* steps performed, the reply buffer and the value returned (or the panic).
sync_receive(datagram, now) ==
    LET r == receive_packet(datagram)
    IN  IF r.kind = "Err"
        THEN [steps |-> <<"recv">>, reply |-> Filled(datagram.packet, datagram.size),
              result |-> r]
        ELSE IF should_discard_received_packet(r.value[1])
        THEN [steps |-> <<"recv", "validate">>, reply |-> r.value[1],
              result |-> Err(InvalidContent)]
        ELSE [steps |-> <<"recv", "validate", "compute">>, reply |-> r.value[1],
              result |-> compute_time(r.value[1], now, now)]

-----------------------------------------------------------------------------
(* Bounds and inputs *)

\* sync() calls made on one client
MaxCalls == 2

\* datagrams the socket's receive queue holds
MaxQueue == 2

Before(a, b) == a.secs < b.secs \/ (a.secs = b.secs /\ a.nanos < b.nanos)

\* Readings of the local clock: 10.000 s, 10.002 s and 10.010 s
Instants == {Duration(10, 0), Duration(10, 2000000), Duration(10, 10000000)}

\* The timestamp with seconds 2208988800 + secs and low 32 bits low (< 2^31)
StampAt(secs, low) ==
    ToBe(<<NTP_TO_UNIX_HI, NTP_TO_UNIX_LO + secs>>, <<low \div W16, low % W16>>)

\* Seconds 2208988799: one second before the Unix epoch, raw value not zero
StampBelowEpoch == ToBe(<<NTP_TO_UNIX_HI, NTP_TO_UNIX_LO - 1>>, <<0, 0>>)

Datagram(ip, port, size, packet) ==
    [ip |-> ip, port |-> port, size |-> size, packet |-> packet]

Senders ==
    {server_addr, [ip |-> "198.51.100.7", port |-> server_addr.port],
     [ip |-> server_addr.ip, port |-> server_addr.port + 1]}

\* Every combination of the fields sync() reads, and some it does not read
WidePackets ==
    {[PacketDefault EXCEPT !.flags = f, !.stratum = st, !.poll = po,
                           !.org = o, !.rec = r, !.xmt = x] :
        f \in {flags(0, NTP_VERSION, m) : m \in 0..7}
              \cup {flags(3, NTP_VERSION, 4), flags(1, 3, 4)},
        st \in {0, 2},
        po \in {0, 6},
        o \in {TimeStampDefault, StampAt(10, 0), StampBelowEpoch},
        r \in {TimeStampDefault, StampAt(10, 5000000), StampBelowEpoch},
        x \in {TimeStampDefault, StampAt(10, 6000000), StampAt(10, 1000000)}}

WideDatagrams ==
    {Datagram(a.ip, a.port, size, p) :
        a \in Senders, size \in {0, 40, NTP_PACKET_SIZE}, p \in WidePackets}

\* (rec, xmt) a server stamps its reply with: a clock close to the client's,
\* and a clock one second ahead
ServerStamps ==
    {<<StampAt(10, 5000000), StampAt(10, 6000000)>>,
     <<StampAt(11, 0), StampAt(11, 0)>>}

\* The server's reply to the request whose transmit timestamp is xmt
ServerReplyTo(xmt, st) ==
    Datagram(server_addr.ip, server_addr.port, NTP_PACKET_SIZE,
             [PacketDefault EXCEPT !.flags = flags(0, NTP_VERSION, 4),
                                   !.stratum = 2, !.org = xmt,
                                   !.rec = st[1], !.xmt = st[2]])

\* Datagrams nobody asked for: a well-formed reply from another host, one
\* from another port of the server, a truncated one and a stratum 0 one
\* from the server
StrayDatagrams ==
    LET good == ServerReplyTo(StampAt(10, 0), <<StampAt(10, 5000000), StampAt(10, 6000000)>>)
    IN  {[good EXCEPT !.ip = "198.51.100.7"],
         [good EXCEPT !.port = server_addr.port + 1],
         [good EXCEPT !.size = 40],
         [good EXCEPT !.packet.stratum = 0]}

-----------------------------------------------------------------------------
(* The client and its environment *)

SyncInit ==
    /\ clock \in Instants
    /\ pc = "idle"
    /\ out_packet = PacketDefault
    /\ reply = PacketDefault
    /\ socket = <<>>
    /\ wire = {}
    /\ result = NoResult
    /\ trace = <<>>
    /\ calls = 0
    /\ history = <<>>
    /\ received = None

CodecOff ==
    /\ instant = Duration(0, 0)
    /\ stamp = TimeStampDefault
    /\ decoded = None
    /\ codec_pc = "off"

Init == SyncInit /\ CodecOff

\* The local clock moves on.
Tick ==
    /\ \E i \in Instants : Before(clock, i) /\ clock' = i
    /\ UNCHANGED <<pc, out_packet, reply, socket, wire, result, trace, calls,
                   history, received>>
    /\ UNCHANGED codec_vars

\* sync() up to the blocking recv_from: the request is built and sent.
SyncSend(maxCalls) ==
    /\ pc = "idle"
    /\ calls < maxCalls
    /\ out_packet' = new_client_packet(clock)
    /\ wire' = wire \cup {out_packet'.xmt}
    /\ history' = Append(history, out_packet'.xmt)
    /\ reply' = PacketDefault
    /\ received' = None
    /\ result' = NoResult
    /\ trace' = <<"send">>
    /\ calls' = calls + 1
    /\ pc' = "recv"
    /\ UNCHANGED <<clock, socket>>
    /\ UNCHANGED codec_vars

\* Mutant: a failed send is followed by the receive all the same.
SyncSendFailThenReceive(maxCalls) ==
    /\ pc = "idle"
    /\ calls < maxCalls
    /\ out_packet' = new_client_packet(clock)
    /\ history' = Append(history, out_packet'.xmt)
    /\ reply' = PacketDefault
    /\ received' = None
    /\ result' = Err(SendFailed)
    /\ trace' = <<"send">>
    /\ calls' = calls + 1
    /\ pc' = "recv"
    /\ UNCHANGED <<clock, socket, wire>>
    /\ UNCHANGED codec_vars

\* sync() when send_to fails: the error is returned at once.
SyncSendFail(maxCalls) ==
    /\ pc = "idle"
    /\ calls < maxCalls
    /\ out_packet' = new_client_packet(clock)
    /\ history' = Append(history, out_packet'.xmt)
    /\ reply' = PacketDefault
    /\ received' = None
    /\ result' = Err(SendFailed)
    /\ trace' = <<"send">>
    /\ calls' = calls + 1
    /\ pc' = "idle"
    /\ UNCHANGED <<clock, socket, wire>>
    /\ UNCHANGED codec_vars

\* sync() from the return of recv_from to its own return (or panic).
SyncReceive ==
    /\ pc = "recv"
    /\ socket # <<>>
    /\ LET d == Head(socket)
           s == sync_receive(d, clock)
       IN  /\ socket' = Tail(socket)
           /\ received' = Some([ip |-> d.ip, port |-> d.port, size |-> d.size,
                                t4 |-> clock])
           /\ reply' = s.reply
           /\ result' = s.result
           /\ trace' = trace \o s.steps
           /\ pc' = IF s.result.kind = "Panic" THEN "panicked" ELSE "idle"
    /\ UNCHANGED <<clock, out_packet, wire, calls, history>>
    /\ UNCHANGED codec_vars

\* sync() when recv_from fails: the error is returned at once.
SyncReceiveFail ==
    /\ pc = "recv"
    /\ result' = Err(RecvFailed)
    /\ trace' = Append(trace, "recv")
    /\ pc' = "idle"
    /\ UNCHANGED <<clock, out_packet, reply, socket, wire, calls, history,
                   received>>
    /\ UNCHANGED codec_vars

\* The server answers a request: it echoes the request's transmit timestamp
\* in org and stamps rec and xmt.
ServerReply(cap) ==
    /\ Len(socket) < cap
    /\ \E xmt \in wire, st \in ServerStamps :
          /\ socket' = Append(socket, ServerReplyTo(xmt, st))
          /\ wire' = wire \ {xmt}
    /\ UNCHANGED <<clock, pc, out_packet, reply, result, trace, calls, history,
                   received>>
    /\ UNCHANGED codec_vars

\* A datagram of the set D reaches the socket.
Arrive(D, cap) ==
    /\ Len(socket) < cap
    /\ \E d \in D : socket' = Append(socket, d)
    /\ UNCHANGED <<clock, pc, out_packet, reply, wire, result, trace, calls,
                   history, received>>
    /\ UNCHANGED codec_vars

\* Repeated sync() calls on one client, the server answering and stray
\* datagrams arriving.
Next ==
    \/ Tick
    \/ SyncSend(MaxCalls)
    \/ SyncSendFail(MaxCalls)
    \/ SyncReceive
    \/ SyncReceiveFail
    \/ ServerReply(MaxQueue)
    \/ Arrive(StrayDatagrams, MaxQueue)

Spec == Init /\ [][Next]_vars

\* One sync() call; while it waits in recv_from, any one datagram arrives.
ArriveWhileWaiting ==
    /\ pc = "recv"
    /\ Arrive(WideDatagrams, 1)

NextExchange ==
    \/ Tick
    \/ SyncSend(1)
    \/ SyncSendFail(1)
    \/ SyncReceive
    \/ SyncReceiveFail
    \/ ArriveWhileWaiting

SpecExchange == Init /\ [][NextExchange]_vars

-----------------------------------------------------------------------------
(* The timestamp codec on its own *)

\* Largest Unix second whose NTP second still fits in 32 bits
MaxUnixSecs32 == (W16 - 1 - NTP_TO_UNIX_HI) * W16 + (W16 - 1 - NTP_TO_UNIX_LO)

\* Local instants TimeStamp::now() is applied to
CodecInstants ==
    {Duration(secs, nanos) :
        secs \in {0, 10, 1700000000, MaxUnixSecs32, MaxUnixSecs32 + 1, 2147483647},
        nanos \in {0, 1, 500000000, NANOS_PER_SEC - 1}}

\* Timestamps TimeStamp::decode is applied to: seconds around the Unix epoch
\* and at both ends of the range, low words around 10^9 and at 2^30, 2^31
RawStamps ==
    {ToBe(sec, frac) :
        sec \in {<<0, 0>>, <<0, 1>>, <<NTP_TO_UNIX_HI - 1, W16 - 1>>,
                 <<NTP_TO_UNIX_HI, NTP_TO_UNIX_LO - 1>>,
                 <<NTP_TO_UNIX_HI, NTP_TO_UNIX_LO>>,
                 <<NTP_TO_UNIX_HI, NTP_TO_UNIX_LO + 10>>,
                 <<NTP_TO_UNIX_HI + 1, 0>>, <<W16 - 1, W16 - 1>>},
        frac \in {<<0, 0>>, <<0, 1>>, <<KNanos(1)[1], KNanos(1)[2] - 1>>, KNanos(1),
                  <<16384, 0>>, <<32768, 0>>, <<W16 - 1, W16 - 1>>}}

SyncOff ==
    /\ clock = Duration(10, 0)
    /\ pc = "idle"
    /\ out_packet = PacketDefault
    /\ reply = PacketDefault
    /\ socket = <<>>
    /\ wire = {}
    /\ result = NoResult
    /\ trace = <<>>
    /\ calls = 0
    /\ history = <<>>
    /\ received = None

CodecInit ==
    /\ SyncOff
    /\ instant \in CodecInstants
    /\ stamp \in RawStamps
    /\ decoded = None
    /\ codec_pc = "raw"

\* stamp = TimeStamp::now() at the local instant
CodecNow ==
    /\ codec_pc = "raw"
    /\ stamp' = TimeStampNow(instant)
    /\ codec_pc' = "now"
    /\ UNCHANGED <<instant, decoded>>
    /\ UNCHANGED sync_vars

\* decoded = stamp.decode()
CodecDecode ==
    /\ codec_pc \in {"raw", "now"}
    /\ decoded' = TimeStampDecode(stamp)
    /\ codec_pc' = IF codec_pc = "raw" THEN "raw_decoded" ELSE "now_decoded"
    /\ UNCHANGED <<instant, stamp>>
    /\ UNCHANGED sync_vars

NextCodec == CodecNow \/ CodecDecode

SpecCodec == CodecInit /\ [][NextCodec]_vars

-----------------------------------------------------------------------------
(* Claims about the timestamp codec, stated on the bytes of the timestamp *)

CodecDecoded == codec_pc \in {"raw_decoded", "now_decoded"}

\* The big-endian bytes of the seconds 2208988800 = 0x83AA7E80
EpochBytes == <<131, 170, 126, 128>>

\* The seconds of timestamp t (its first four bytes, most significant
\* first) are smaller than 2208988800
SecondsBelowEpoch(t) ==
    \E i \in 1..4 :
        /\ t[i] < EpochBytes[i]
        /\ \A j \in 1..(i - 1) : t[j] = EpochBytes[j]

\* Seconds of t minus 2208988800, for a timestamp not below the epoch
SecondsSinceEpoch(t) ==
    ((t[1] - EpochBytes[1]) * W8 + (t[2] - EpochBytes[2])) * W16
        + (t[3] - EpochBytes[3]) * W8 + (t[4] - EpochBytes[4])

\* The low 32 bits F of t divided by 2^23: F / 2^32 seconds is
\* F / 2^23 * 1953125 nanoseconds (10^9 / 2^32 = 1953125 / 2^23)
FractionUnits(t) == (t[5] * W8 + t[6]) \div 128

FractionIs(t, fh, fl) == t[5] * W8 + t[6] = fh /\ t[7] * W8 + t[8] = fl

\* C5: every timestamp with seconds S >= 2208988800 and low 32 bits F decodes
\* to (S - 2208988800) + F / 2^32 seconds after the Unix epoch: the decoded
\* whole second is S - 2208988800, the sub-second part is the nanoseconds of
\* F / 2^32 s, and F = 2^31 decodes to exactly half a second.
C5_FractionOver2To32 ==
    (CodecDecoded /\ ~SecondsBelowEpoch(stamp)) =>
        /\ decoded # None
        /\ decoded[1].secs = SecondsSinceEpoch(stamp)
        /\ decoded[1].nanos >= FractionUnits(stamp) * 1953125
        /\ decoded[1].nanos < (FractionUnits(stamp) + 1) * 1953125
        /\ FractionIs(stamp, 32768, 0) => decoded[1].nanos = 500000000

\* C6: for every local instant at or after the Unix epoch whose NTP seconds
\* fit in 32 bits, decoding the timestamp TimeStamp::now() builds from it
\* returns a value, with the same whole seconds and the same sub-second part.
C6_RoundTrip ==
    (codec_pc = "now_decoded" /\ instant.secs <= MaxUnixSecs32) =>
        /\ decoded # None
        /\ decoded[1].secs = instant.secs
        /\ decoded[1].nanos = instant.nanos

\* C6 witness: the last representable instant, 999999999 ns into the second
\* whose NTP second is 2^32 - 1, went through now() and decode().
C6_Witness ==
    /\ codec_pc = "now_decoded"
    /\ instant = Duration(MaxUnixSecs32, NANOS_PER_SEC - 1)
    /\ stamp = <<255, 255, 255, 255, 59, 154, 201, 255>>
    /\ decoded = Some(instant)

\* C7: decode returns no value exactly for the timestamps whose seconds are
\* below 2208988800, whatever the low 32 bits; the all-zero timestamp decodes
\* to no value and not to the Unix epoch; seconds 2208988800 with fraction 0
\* decodes to exactly the Unix epoch.
C7_NoValueBelowEpoch ==
    CodecDecoded =>
        /\ (decoded = None) <=> SecondsBelowEpoch(stamp)
        /\ (\A i \in 1..8 : stamp[i] = 0) =>
              decoded = None /\ decoded # Some(Duration(0, 0))
        /\ stamp = EpochBytes \o <<0, 0, 0, 0>> => decoded = Some(Duration(0, 0))

\* C7 witness: the all-zero timestamp was decoded, to no value.
C7_Witness ==
    /\ codec_pc = "raw_decoded"
    /\ \A i \in 1..8 : stamp[i] = 0
    /\ decoded = None

-----------------------------------------------------------------------------
(* Claims about one exchange, stated on the reply buffer and the outcome *)

AllZero(t) == \A i \in 1..8 : t[i] = 0

Steps == {trace[i] : i \in 1..Len(trace)}

\* recv_from returned 48 bytes sent from the server's address and port
FromServer48 ==
    /\ received # None
    /\ received[1].ip = server_addr.ip
    /\ received[1].port = server_addr.port
    /\ received[1].size = 48

\* One of the grounds for discarding packet p holds
Rejected(p) ==
    \/ p.flags % 8 \in {1, 2, 5, 6, 7} \cup {0, 3}
    \/ p.stratum = 0
    \/ AllZero(p.org)
    \/ AllZero(p.rec)
    \/ AllZero(p.xmt)

\* p passes validation and its org, rec and xmt decode
Usable(p) ==
    /\ ~Rejected(p)
    /\ ~SecondsBelowEpoch(p.org)
    /\ ~SecondsBelowEpoch(p.rec)
    /\ ~SecondsBelowEpoch(p.xmt)

\* A duration as an exact number of seconds
Secs(d) == Norm(d.secs, d.nanos)

\* offset o and delay d are those of the four timestamps:
\* 2 * o + t1 + t4 = t2 + t3 and d + t1 + t3 = t4 + t2
FourTimestamps(o, d, t1, t2, t3, t4) ==
    /\ FAdd(Norm(2 * o.s, o.hn), FAdd(Secs(t1), Secs(t4)))
          = FAdd(Secs(t2), Secs(t3))
    /\ FAdd(d, FAdd(Secs(t1), Secs(t3))) = FAdd(Secs(t4), Secs(t2))

\* The result carries the offset and delay of the reply's org, rec, xmt and
\* of the instant t4 the reply was received at
ResultOfReply ==
    FourTimestamps(result.value[1].offset, result.value[1].delay,
                   TimeStampDecode(reply.org)[1], TimeStampDecode(reply.rec)[1],
                   TimeStampDecode(reply.xmt)[1], received[1].t4)

\* C1: for a 48-byte reply received from the server, sync() fails with the
\* invalid-reply-content error and computes no offset whenever the low 3 bits
\* of flags are not 4, or stratum is 0, or org, rec or xmt is all-zero,
\* whatever the other fields are.
C1_ValidatorRejects ==
    (FromServer48 /\ Rejected(reply)) =>
        /\ result = Err(InvalidContent)
        /\ "compute" \notin Steps
        /\ pc = "idle"

\* C1 witness: a Server-mode reply with stratum 0 and non-zero timestamps
\* came from the server and was discarded.
C1_Witness ==
    /\ FromServer48
    /\ reply.flags % 8 = 4
    /\ reply.stratum = 0
    /\ ~AllZero(reply.org) /\ ~AllZero(reply.rec) /\ ~AllZero(reply.xmt)
    /\ result = Err(InvalidContent)

\* C2: a datagram is accepted only if its sender IP and port equal the server
\* address and its received byte count is 48; for any other datagram sync()
\* fails with 'Unexpected reply', neither the validator nor the offset
\* computation runs, and no second receive is made in that call.
C2_UnexpectedReply ==
    received # None =>
        /\ result # Err(UnexpectedReply) <=> FromServer48
        /\ ~FromServer48 =>
              /\ result = Err(UnexpectedReply)
              /\ trace = <<"send", "recv">>
              /\ pc = "idle"

\* C2 witness: a 48-byte reply that would pass validation came from another
\* port of the server's host and was refused.
C2_Witness ==
    /\ received # None
    /\ received[1].ip = server_addr.ip
    /\ received[1].port # server_addr.port
    /\ received[1].size = 48
    /\ Usable(reply)
    /\ result = Err(UnexpectedReply)

\* C3: for every reply that passes validation and whose org, rec and xmt
\* decode, compute_time returns offset = ((t2 - t1) + (t3 - t4)) / 2 and
\* delay = (t4 - t1) - (t3 - t2); t1 = 10.000, t2 = 10.005, t3 = 10.006,
\* t4 = 10.002 gives offset 0.0045 s and delay 0.001 s.
C3_ReturnsOffsetAndDelay ==
    (FromServer48 /\ Usable(reply)) =>
        /\ result.kind = "Ok"
        /\ ResultOfReply
        /\ ( /\ reply.org = StampAt(10, 0)
             /\ reply.rec = StampAt(10, 5000000)
             /\ reply.xmt = StampAt(10, 6000000)
             /\ received[1].t4 = Duration(10, 2000000) ) =>
              /\ result.value[1].offset = [s |-> 0, hn |-> 9000000]
              /\ result.value[1].delay = [s |-> 0, n |-> 1000000]

\* C4: for every reply that passes validation and whose org, rec and xmt
\* decode, sync() returns a SyncResult whatever the sign of the offset, with
\* estimated_time = local time + offset; it never panics or rejects the reply
\* because the offset is negative.
C4_NegativeOffsetReturned ==
    (FromServer48 /\ Usable(reply)) =>
        /\ result.kind # "Panic"
        /\ result.kind # "Err"
        /\ result.value # None
        /\ Secs(result.value[1].estimated_time)
              = FAdd(Secs(received[1].t4),
                     Norm(result.value[1].offset.s,
                          result.value[1].offset.hn \div 2))

\* C8: a reply that passes the validator but has org, rec or xmt with seconds
\* below 2208988800 makes sync() fail with the timestamp-decode error, not
\* the invalid-content one, and no SyncResult is produced.
C8_DecodeError ==
    ( /\ FromServer48
      /\ ~Rejected(reply)
      /\ \E t \in {reply.org, reply.rec, reply.xmt} : SecondsBelowEpoch(t) ) =>
        /\ result = Err(DecodeFailed)
        /\ result.msg # InvalidContent
        /\ result.value = None

\* C8 witness: a validated reply whose rec is one second before the Unix
\* epoch (org and xmt decode) ended in the decode error.
C8_Witness ==
    /\ FromServer48
    /\ ~Rejected(reply)
    /\ ~SecondsBelowEpoch(reply.org)
    /\ SecondsBelowEpoch(reply.rec)
    /\ ~SecondsBelowEpoch(reply.xmt)
    /\ result = Err(DecodeFailed)

-----------------------------------------------------------------------------
(* Claims about repeated sync() calls on one client *)

IsSocketOp(step) == step \in {"send", "recv"}

\* The socket operations of the current call, in order
SocketOps == SelectSeq(trace, IsSocketOp)

\* C9: every sync() call makes exactly one send of a freshly built request,
\* then at most one receive, the send first; a failed send is followed by no
\* receive, and after any failure the call returns without sending or
\* receiving again.
C9_OneExchangePerCall ==
    /\ Len(history) = calls
    /\ calls = 0 => trace = <<>>
    /\ calls > 0 =>
          /\ SocketOps \in {<<"send">>, <<"send", "recv">>}
          /\ out_packet.flags = 227
          /\ AllZero(out_packet.org) /\ AllZero(out_packet.rec)
          /\ ~SecondsBelowEpoch(out_packet.xmt)
          /\ ~Before(clock, TimeStampDecode(out_packet.xmt)[1])
          /\ history[calls] = out_packet.xmt
    /\ pc = "recv" => SocketOps = <<"send">> /\ result = NoResult
    /\ result = Err(SendFailed) => SocketOps = <<"send">>
    /\ result.kind = "Err" => pc = "idle"
    /\ Cardinality(wire) <= calls

\* C9 witness: the second call failed on an unexpected datagram and returned
\* after its one send and one receive, another datagram still being queued.
C9_Witness ==
    /\ calls = 2
    /\ pc = "idle"
    /\ result = Err(UnexpectedReply)
    /\ trace = <<"send", "recv">>
    /\ socket # <<>>

=============================================================================
